---- MODULE Spec2Model ----
(***************************************************************************)
(* Model of the MaRS sensor-fusion library's buffer record                 *)
(* (mars::BufferEntryType, buffer_entry_type.cpp) and of the strided       *)
(* subsampling helper mars::Utils::VecExtractEveryNthElm (utils.h).        *)
(*                                                                         *)
(* BufferEntryType objects live in slots; callers (readers) apply the      *)
(* const member functions to them.  VecExtractEveryNthElm is a pure        *)
(* function, applied to inputs drawn by the initial state.                 *)
(***************************************************************************)
EXTENDS Integers, Sequences, FiniteSets, TLC

VARIABLES
    entries,         \* slot -> constructed BufferEntryType object
    given,           \* slot -> the arguments its constructor was called with
    call,            \* reader -> the member function it called last, and its result
    pc,              \* reader -> position inside operator<< ("idle" outside it)
    out,             \* reader -> what its latest operator<< call wrote to the stream
    crashed,         \* the process was ended by a trap (read through a null sensor_)
    data,            \* VecExtractEveryNthElm: argument data
    nth,             \* VecExtractEveryNthElm: argument nth
    every_nth_data,  \* VecExtractEveryNthElm: returned vector
    returned         \* VecExtractEveryNthElm has returned

vars == <<entries, given, call, pc, out, crashed, data, nth, every_nth_data, returned>>

entryVars == <<entries, given, call, pc, out, crashed>>
vecVars == <<data, nth, every_nth_data, returned>>

----------------------------------------------------------------------------
(* Bounds *)

\* timestamps are drawn from 0..MaxTime
MaxTime == 2
\* integer metadata arguments are drawn from -1..MaxMeta, and 99
MaxMeta == 5
\* longest data vector handed to VecExtractEveryNthElm
MaxLen == 10
\* largest nth handed to VecExtractEveryNthElm
MaxNth == 3

----------------------------------------------------------------------------
(* Values *)

\* enum BufferMetadataType (mars/type_definitions/buffer_entry_type.h):
\* five enumerators, numbered in declaration order
core_state == 0
sensor_state == 1
init_state == 2
measurement == 3
measurement_ooo == 4

DefinedMetadata == {core_state, sensor_state, init_state, measurement, measurement_ooo}

\* the constructor takes metadata as const int&: any integer is accepted
MetaValues == (-1 .. MaxMeta) \cup {99}

Timestamps == 0 .. MaxTime

\* BufferDataType payloads
Payloads == {"data1", "data2"}

\* std::shared_ptr<SensorAbsClass>: a sensor descriptor, or null
nullptr == "nullptr"
Sensors == {"sensor_imu", "sensor_pose"}
SensorPtrs == Sensors \cup {nullptr}

\* SensorAbsClass::name_
name_(sensor) == IF sensor = "sensor_imu" THEN "imu" ELSE "pose"

Slots == {"a", "b", "c"}
Readers == {"r1", "r2"}

----------------------------------------------------------------------------
(* mars::Time comparison, on the scalar seconds *)

TimeLess(t1, t2) == t1 < t2
TimeLessEq(t1, t2) == t1 <= t2
TimeGreater(t1, t2) == t1 > t2
TimeGreaterEq(t1, t2) == t1 >= t2

----------------------------------------------------------------------------
(* BufferEntryType *)

\* the constructor, were it to replace an undefined tag by a default
BufferEntryType_Validating(timestamp, payload, sensor, metadata) ==
    [ timestamp_ |-> timestamp,
      data_ |-> payload,
      sensor_ |-> sensor,
      metadata_ |-> IF metadata \in DefinedMetadata THEN metadata ELSE core_state,
      metadata_state_filter_ |-> {core_state, sensor_state, init_state},
      metadata_measurement_filter_ |-> {measurement, measurement_ooo} ]

\* the constructor, were init_state listed in the measurement filter too
BufferEntryType_Overlapping(timestamp, payload, sensor, metadata) ==
    [ timestamp_ |-> timestamp,
      data_ |-> payload,
      sensor_ |-> sensor,
      metadata_ |-> metadata,
      metadata_state_filter_ |-> {core_state, sensor_state, init_state},
      metadata_measurement_filter_ |-> {init_state, measurement, measurement_ooo} ]

\* BufferEntryType::BufferEntryType(timestamp, data, sensor, metadata)
BufferEntryType(timestamp, payload, sensor, metadata) ==
    [ timestamp_ |-> timestamp,
      data_ |-> payload,
      sensor_ |-> sensor,
      metadata_ |-> metadata,
      metadata_state_filter_ |-> {core_state, sensor_state, init_state},
      metadata_measurement_filter_ |-> {measurement, measurement_ooo} ]

\* operator<, were it to break ties by the metadata tag
OperatorLess_TieByMetadata(lhs, rhs) ==
    \/ TimeLess(lhs.timestamp_, rhs.timestamp_)
    \/ lhs.timestamp_ = rhs.timestamp_ /\ lhs.metadata_ < rhs.metadata_

\* bool BufferEntryType::operator<(const BufferEntryType& rhs) const
OperatorLess(lhs, rhs) == TimeLess(lhs.timestamp_, rhs.timestamp_)

\* operator<=, were it written with <
OperatorLessEq_Strict(lhs, rhs) == TimeLess(lhs.timestamp_, rhs.timestamp_)

\* bool BufferEntryType::operator<=(const BufferEntryType& rhs) const
OperatorLessEq(lhs, rhs) == TimeLessEq(lhs.timestamp_, rhs.timestamp_)

\* bool BufferEntryType::operator>(const BufferEntryType& rhs) const
OperatorGreater(lhs, rhs) == TimeGreater(lhs.timestamp_, rhs.timestamp_)

\* operator>=, were it written with >
OperatorGreaterEq_Strict(lhs, rhs) == TimeGreater(lhs.timestamp_, rhs.timestamp_)

\* bool BufferEntryType::operator>=(const BufferEntryType& rhs) const
OperatorGreaterEq(lhs, rhs) == TimeGreaterEq(lhs.timestamp_, rhs.timestamp_)

\* IsState, were it to leave init_state out
IsState_NoInit(entry) == entry.metadata_ \in entry.metadata_state_filter_ \ {init_state}

\* bool BufferEntryType::IsState() const
IsState(entry) == entry.metadata_ \in entry.metadata_state_filter_

\* IsMeasurement, were it to look the tag up in the state filter
IsMeasurement_StateFilter(entry) == entry.metadata_ \in entry.metadata_state_filter_

\* bool BufferEntryType::IsMeasurement() const
IsMeasurement(entry) == entry.metadata_ \in entry.metadata_measurement_filter_

CompareOps == {"<", "<=", ">", ">="}

\* the comparison operator named op, applied
Compare(op, lhs, rhs) ==
    CASE op = "<" -> OperatorLess(lhs, rhs)
      [] op = "<=" -> OperatorLessEq(lhs, rhs)
      [] op = ">" -> OperatorGreater(lhs, rhs)
      [] op = ">=" -> OperatorGreaterEq(lhs, rhs)

NoSlot == "-"
NoCall == [op |-> "none", lhs |-> NoSlot, rhs |-> NoSlot, ret |-> FALSE]

Live == DOMAIN entries

----------------------------------------------------------------------------
(* Actions on entries *)

\* an entry is created exactly once, into a free slot
Construct(s, timestamp, payload, sensor, metadata) ==
    /\ ~crashed
    /\ s \notin Live
    /\ entries' = entries @@ (s :> BufferEntryType(timestamp, payload, sensor, metadata))
    /\ given' = given @@ (s :> [timestamp |-> timestamp, data |-> payload,
                                sensor |-> sensor, metadata |-> metadata])
    /\ UNCHANGED <<call, pc, out, crashed>>
    /\ UNCHANGED vecVars

\* reader r evaluates entries[i] op entries[j]
CallCompare(r, op, i, j) ==
    /\ ~crashed
    /\ pc[r] = "idle"
    /\ i \in Live /\ j \in Live
    /\ call' = [call EXCEPT ![r] = [op |-> op, lhs |-> i, rhs |-> j,
                                    ret |-> Compare(op, entries[i], entries[j])]]
    /\ UNCHANGED <<entries, given, pc, out, crashed>>
    /\ UNCHANGED vecVars

\* IsState, were it to look the tag up with an inserting access
\* (metadata_state_filter_.insert(metadata_)) in a non-const method
CallIsState_Inserting(r, s) ==
    /\ ~crashed
    /\ pc[r] = "idle"
    /\ s \in Live
    /\ call' = [call EXCEPT ![r] = [op |-> "IsState", lhs |-> s, rhs |-> NoSlot,
                                    ret |-> IsState(entries[s])]]
    /\ entries' = [entries EXCEPT ![s].metadata_state_filter_ =
                                      @ \cup {entries[s].metadata_}]
    /\ UNCHANGED <<given, pc, out, crashed>>
    /\ UNCHANGED vecVars

\* reader r evaluates entries[s].IsState()
CallIsState(r, s) ==
    /\ ~crashed
    /\ pc[r] = "idle"
    /\ s \in Live
    /\ call' = [call EXCEPT ![r] = [op |-> "IsState", lhs |-> s, rhs |-> NoSlot,
                                    ret |-> IsState(entries[s])]]
    /\ UNCHANGED <<entries, given, pc, out, crashed>>
    /\ UNCHANGED vecVars

\* reader r evaluates entries[s].IsMeasurement()
CallIsMeasurement(r, s) ==
    /\ ~crashed
    /\ pc[r] = "idle"
    /\ s \in Live
    /\ call' = [call EXCEPT ![r] = [op |-> "IsMeasurement", lhs |-> s, rhs |-> NoSlot,
                                    ret |-> IsMeasurement(entries[s])]]
    /\ UNCHANGED <<entries, given, pc, out, crashed>>
    /\ UNCHANGED vecVars

\* std::ostream& operator<<(std::ostream& out, const BufferEntryType& entry),
\* first statement: out << entry.sensor_->name_ << '\t'.
\* The read through a null sensor_ is undefined; the address read lies in
\* the unmapped page at zero, so the build traps and the process ends.
StreamName(r, s) ==
    /\ ~crashed
    /\ pc[r] = "idle"
    /\ s \in Live
    /\ IF entries[s].sensor_ = nullptr
         THEN /\ crashed' = TRUE
              /\ UNCHANGED <<call, pc, out>>
         ELSE /\ call' = [call EXCEPT ![r] = [op |-> "<<", lhs |-> s, rhs |-> NoSlot,
                                              ret |-> FALSE]]
              /\ out' = [out EXCEPT ![r] = <<name_(entries[s].sensor_), "\t">>]
              /\ pc' = [pc EXCEPT ![r] = "timestamp"]
              /\ UNCHANGED crashed
    /\ UNCHANGED <<entries, given>>
    /\ UNCHANGED vecVars

\* operator<<, second statement: out << entry.timestamp_ << '\t'
StreamTimestamp(r) ==
    /\ ~crashed
    /\ pc[r] = "timestamp"
    /\ out' = [out EXCEPT ![r] = @ \o <<ToString(entries[call[r].lhs].timestamp_), "\t">>]
    /\ pc' = [pc EXCEPT ![r] = "metadata"]
    /\ UNCHANGED <<entries, given, call, crashed>>
    /\ UNCHANGED vecVars

\* operator<<, third statement and return: out << entry.metadata_ << '\t'
StreamMetadata(r) ==
    /\ ~crashed
    /\ pc[r] = "metadata"
    /\ out' = [out EXCEPT ![r] = @ \o <<ToString(entries[call[r].lhs].metadata_), "\t">>]
    /\ pc' = [pc EXCEPT ![r] = "idle"]
    /\ UNCHANGED <<entries, given, call, crashed>>
    /\ UNCHANGED vecVars

----------------------------------------------------------------------------
(* Utils::VecExtractEveryNthElm *)

\* the loop, were its bound k < len
RECURSIVE VecExtractLoop_ToEnd(_, _, _, _)
VecExtractLoop_ToEnd(d, n, k, acc) ==
    IF k < Len(d)
      THEN VecExtractLoop_ToEnd(d, n, k + n, Append(acc, d[k + 1]))
      ELSE acc

\* for (int k = 0; k < len - nth; k += nth) every_nth_data.push_back(data[k]);
\* vectors are 0-indexed, sequences 1-indexed.  For nth >= 1 neither
\* len - nth nor k + nth (k < len - nth) leaves the range of int.
RECURSIVE VecExtractLoop(_, _, _, _)
VecExtractLoop(d, n, k, acc) ==
    IF k < Len(d) - n
      THEN VecExtractLoop(d, n, k + n, Append(acc, d[k + 1]))
      ELSE acc

\* static std::vector<T> VecExtractEveryNthElm(std::vector<T, A> const& data, const int& nth)
VecExtractEveryNthElm(d, n) == VecExtractLoop(d, n, 0, << >>)

\* the call VecExtractEveryNthElm(data, nth)
CallVecExtract ==
    /\ ~returned
    /\ every_nth_data' = VecExtractEveryNthElm(data, nth)
    /\ returned' = TRUE
    /\ UNCHANGED <<data, nth>>
    /\ UNCHANGED entryVars

----------------------------------------------------------------------------
(* Initial states and specifications *)

InitEntries ==
    /\ entries = << >>
    /\ given = << >>
    /\ call = [r \in Readers |-> NoCall]
    /\ pc = [r \in Readers |-> "idle"]
    /\ out = [r \in Readers |-> << >>]
    /\ crashed = FALSE

InitVecIdle ==
    /\ data = << >>
    /\ nth = 1
    /\ every_nth_data = << >>
    /\ returned = FALSE

\* elements of the data vectors
Elements == {"x", "y"}
Vectors == UNION { [1 .. n -> Elements] : n \in 0 .. MaxLen }

InitVecInputs ==
    /\ data \in Vectors
    /\ nth \in 1 .. MaxNth
    /\ every_nth_data = << >>
    /\ returned = FALSE

Init == InitEntries /\ InitVecIdle

InitVec == InitEntries /\ InitVecInputs

\* decorations (payload, sensor, metadata) used by the ordering specification
OrderDecor ==
    { <<"data1", "sensor_imu", core_state>>,
      <<"data2", "sensor_imu", core_state>>,
      <<"data1", nullptr, core_state>>,
      <<"data1", "sensor_imu", measurement>> }

\* ordering: three entries, one caller, the four comparison operators
NextOrder ==
    \/ \E s \in Slots, t \in Timestamps, d \in OrderDecor :
          Construct(s, t, d[1], d[2], d[3])
    \/ \E op \in CompareOps, i \in Slots, j \in Slots :
          CallCompare("r1", op, i, j)

SpecOrder == Init /\ [][NextOrder]_vars

PairSlots == {"a", "b"}

\* classification: two entries built from every argument, one caller
NextClass ==
    \/ \E s \in PairSlots, t \in Timestamps, p \in Payloads, sn \in SensorPtrs,
          m \in MetaValues :
          Construct(s, t, p, sn, m)
    \/ \E s \in PairSlots : CallIsState("r1", s)
    \/ \E s \in PairSlots : CallIsMeasurement("r1", s)

SpecClass == Init /\ [][NextClass]_vars

\* timestamps used by the concurrent-readers specification
ReadTimes == {0, MaxTime}

\* decorations used by the concurrent-readers specification
ReadDecor ==
    { <<"data1", "sensor_imu", core_state>>,
      <<"data2", "sensor_pose", measurement_ooo>>,
      <<"data1", nullptr, 99>> }

\* two concurrent readers applying every const operation to two entries
NextRead ==
    \/ \E s \in PairSlots, t \in ReadTimes, d \in ReadDecor :
          Construct(s, t, d[1], d[2], d[3])
    \/ \E r \in Readers, op \in CompareOps, i \in PairSlots, j \in PairSlots :
          CallCompare(r, op, i, j)
    \/ \E r \in Readers, s \in PairSlots : CallIsState(r, s)
    \/ \E r \in Readers, s \in PairSlots : CallIsMeasurement(r, s)
    \/ \E r \in Readers, s \in PairSlots : StreamName(r, s)
    \/ \E r \in Readers : StreamTimestamp(r)
    \/ \E r \in Readers : StreamMetadata(r)

SpecRead == Init /\ [][NextRead]_vars

\* the subsampling function applied to every input within the bounds
NextVec == CallVecExtract

SpecVec == InitVec /\ [][NextVec]_vars

----------------------------------------------------------------------------
(* Claims about the ordering (SpecOrder) *)

\* the comparison named op, applied to two timestamps
CompareTime(op, t1, t2) ==
    CASE op = "<" -> TimeLess(t1, t2)
      [] op = "<=" -> TimeLessEq(t1, t2)
      [] op = ">" -> TimeGreater(t1, t2)
      [] op = ">=" -> TimeGreaterEq(t1, t2)

\* entry e with payload, sensor and metadata replaced, its timestamp kept
Redecorated(e, p, sn, m) == [e EXCEPT !.data_ = p, !.sensor_ = sn, !.metadata_ = m]

\* C1: every comparison of two entries returns what the same comparison of
\* their timestamps returns; replacing the payload, the sensor reference and
\* the metadata of either operand, its timestamp kept, changes no result, and
\* any two pairs of entries with the same timestamps compare alike.
C1_OrderByTimestampOnly ==
    /\ \A r \in Readers :
          call[r].op \in CompareOps =>
             LET op == call[r].op
                 a == entries[call[r].lhs]
                 b == entries[call[r].rhs]
             IN  /\ call[r].ret = CompareTime(op, a.timestamp_, b.timestamp_)
                 /\ \A p \in Payloads, sn \in SensorPtrs, m \in MetaValues :
                       /\ Compare(op, Redecorated(a, p, sn, m), b) = call[r].ret
                       /\ Compare(op, a, Redecorated(b, p, sn, m)) = call[r].ret
    /\ \A op \in CompareOps, i \in Live, j \in Live, k \in Live, l \in Live :
          (/\ entries[i].timestamp_ = entries[k].timestamp_
           /\ entries[j].timestamp_ = entries[l].timestamp_)
             => Compare(op, entries[i], entries[j]) = Compare(op, entries[k], entries[l])

\* C1 witness: a < was evaluated on two entries with one timestamp that differ
\* in metadata, while a third entry differs from the first in payload only
C1_Witness ==
    /\ call["r1"].op = "<"
    /\ call["r1"].lhs = "a" /\ call["r1"].rhs = "b"
    /\ Live = Slots
    /\ entries["a"].timestamp_ = entries["b"].timestamp_
    /\ entries["a"].metadata_ < entries["b"].metadata_
    /\ entries["c"].timestamp_ = entries["a"].timestamp_
    /\ entries["c"].data_ # entries["a"].data_

\* C2: on equal timestamps < and > return false, <= and >= return true; on
\* timestamps t1 < t2 the earlier entry is < and <= the later (and neither >
\* nor >=), the later is > and >= the earlier (and neither < nor <=).
C2_TiesAndStrictOrder ==
    \A r \in Readers :
       call[r].op \in CompareOps =>
          LET op == call[r].op
              ta == entries[call[r].lhs].timestamp_
              tb == entries[call[r].rhs].timestamp_
          IN  /\ ta = tb => (call[r].ret <=> op \in {"<=", ">="})
              /\ ta < tb => (call[r].ret <=> op \in {"<", "<="})
              /\ ta > tb => (call[r].ret <=> op \in {">", ">="})

\* C2 witness: <= returned true on two different entries with one timestamp
\* that differ in payload, sensor or metadata
C2_Witness ==
    /\ call["r1"].op = "<="
    /\ call["r1"].lhs # call["r1"].rhs
    /\ call["r1"].ret = TRUE
    /\ entries[call["r1"].lhs].timestamp_ = entries[call["r1"].rhs].timestamp_
    /\ entries[call["r1"].lhs] # entries[call["r1"].rhs]

\* C9: over the constructed entries <= is reflexive, total and transitive,
\* a < b iff b > a, a <= b iff b >= a, and a < b iff not a >= b.
C9_TotalPreorder ==
    \A i \in Live, j \in Live, k \in Live :
       LET a == entries[i]
           b == entries[j]
           c == entries[k]
       IN  /\ OperatorLessEq(a, a)
           /\ OperatorLessEq(a, b) \/ OperatorLessEq(b, a)
           /\ (OperatorLessEq(a, b) /\ OperatorLessEq(b, c)) => OperatorLessEq(a, c)
           /\ OperatorLess(a, b) <=> OperatorGreater(b, a)
           /\ OperatorLessEq(a, b) <=> OperatorGreaterEq(b, a)
           /\ OperatorLess(a, b) <=> ~OperatorGreaterEq(a, b)

\* C9 witness: three entries, two of them tied and the third later, after a
\* >= was evaluated on the tied pair
C9_Witness ==
    /\ Live = Slots
    /\ entries["a"].timestamp_ = entries["b"].timestamp_
    /\ entries["b"].timestamp_ < entries["c"].timestamp_
    /\ entries["a"] # entries["b"]
    /\ call["r1"].op = ">=" /\ call["r1"].lhs = "a" /\ call["r1"].rhs = "b"
    /\ call["r1"].ret = TRUE

----------------------------------------------------------------------------
(* Claims about the classification (SpecClass) *)

\* C3: IsState() returns true iff the metadata passed to the constructor is
\* core_state, sensor_state or init_state; false for measurement, measurement_ooo.
C3_IsStateIffStateTag ==
    \A r \in Readers :
       call[r].op = "IsState" =>
          LET m == given[call[r].lhs].metadata
          IN  /\ call[r].ret <=> m \in {core_state, sensor_state, init_state}
              /\ m \in {measurement, measurement_ooo} => call[r].ret = FALSE

\* C3 witness: IsState() returned true on an entry constructed with init_state
C3_Witness ==
    /\ call["r1"].op = "IsState"
    /\ given[call["r1"].lhs].metadata = init_state
    /\ call["r1"].ret = TRUE

\* C4: IsMeasurement() returns true iff the metadata passed to the constructor
\* is measurement or measurement_ooo; false for the three state tags.
C4_IsMeasurementIffMeasurementTag ==
    \A r \in Readers :
       call[r].op = "IsMeasurement" =>
          LET m == given[call[r].lhs].metadata
          IN  /\ call[r].ret <=> m \in {measurement, measurement_ooo}
              /\ m \in {core_state, sensor_state, init_state} => call[r].ret = FALSE

\* C4 witness: IsMeasurement() returned true on an entry constructed with
\* measurement_ooo
C4_Witness ==
    /\ call["r1"].op = "IsMeasurement"
    /\ given[call["r1"].lhs].metadata = measurement_ooo
    /\ call["r1"].ret = TRUE

\* C5: the constructor accepts every integer metadata value (a free slot can
\* always be constructed with a value outside the five tags), stores it as
\* given, and on such an entry IsState() and IsMeasurement() both return false.
C5_UndefinedTagUnclassified ==
    /\ \A s \in PairSlots \ Live, m \in MetaValues \ DefinedMetadata :
          ENABLED Construct(s, 0, "data1", nullptr, m)
    /\ \A s \in DOMAIN given :
          given[s].metadata \notin DefinedMetadata =>
             /\ s \in Live
             /\ entries[s].metadata_ = given[s].metadata
             /\ ~IsState(entries[s])
             /\ ~IsMeasurement(entries[s])
    /\ \A r \in Readers :
          (/\ call[r].op \in {"IsState", "IsMeasurement"}
           /\ given[call[r].lhs].metadata \notin DefinedMetadata)
             => call[r].ret = FALSE

\* C5 witness: an entry was constructed with metadata 99 and with metadata -1,
\* and IsMeasurement() returned false on the first
C5_Witness ==
    /\ Live = PairSlots
    /\ entries["a"].metadata_ = 99
    /\ entries["b"].metadata_ = -1
    /\ call["r1"].op = "IsMeasurement" /\ call["r1"].lhs = "a"
    /\ call["r1"].ret = FALSE

\* C10: every entry carries the same two filter sets whatever its constructor
\* arguments, the two sets are disjoint, and for no integer metadata value
\* are IsState() and IsMeasurement() both true.
C10_FiltersFixedAndDisjoint ==
    /\ \A s \in Live, t \in Live :
          /\ entries[s].metadata_state_filter_ = entries[t].metadata_state_filter_
          /\ entries[s].metadata_measurement_filter_ = entries[t].metadata_measurement_filter_
    /\ \A s \in Live :
          /\ entries[s].metadata_state_filter_ \cap entries[s].metadata_measurement_filter_ = {}
          /\ ~(IsState(entries[s]) /\ IsMeasurement(entries[s]))
          /\ \A m \in MetaValues :
                LET e == BufferEntryType(given[s].timestamp, given[s].data, given[s].sensor, m)
                IN  ~(IsState(e) /\ IsMeasurement(e))

\* C10 witness: two entries constructed with different arguments throughout,
\* one a state and one a measurement, after a classification call
C10_Witness ==
    /\ Live = PairSlots
    /\ given["a"].timestamp # given["b"].timestamp
    /\ given["a"].data # given["b"].data
    /\ given["a"].sensor # given["b"].sensor
    /\ given["a"].metadata = init_state
    /\ given["b"].metadata = measurement
    /\ call["r1"].op = "IsState" /\ call["r1"].lhs = "a"

----------------------------------------------------------------------------
(* Claim about immutability under concurrent readers (SpecRead) *)

\* once constructed, an entry keeps every field in every step
C8_Frame == \A s \in Live : s \in DOMAIN entries' /\ entries'[s] = entries[s]

\* a call completed after this step returns what the same call on the same
\* entries had returned, to any reader, before it
C8_Repeat ==
    \A r \in Readers, q \in Readers :
       (/\ pc'[r] = "idle" /\ call'[r].op # "none"
        /\ pc[q] = "idle" /\ call[q].op # "none"
        /\ call'[r].op = call[q].op
        /\ call'[r].lhs = call[q].lhs
        /\ call'[r].rhs = call[q].rhs)
          => /\ call'[r].ret = call[q].ret
             /\ call[q].op = "<<" => out'[r] = out[q]

\* C8: no step of any reader (<, <=, >, >=, IsState, IsMeasurement, any
\* statement of operator<<), in any interleaving, changes a field of a
\* constructed entry, and a repeated call returns the same result.
C8_ReadersLeaveEntriesUnchanged == [][C8_Frame /\ C8_Repeat]_vars

\* C8 witness: both readers are inside operator<< on the same entry, at
\* different statements
C8_Witness ==
    /\ pc["r1"] = "metadata"
    /\ pc["r2"] = "timestamp"
    /\ call["r1"].lhs = call["r2"].lhs
    /\ Live = PairSlots

----------------------------------------------------------------------------
(* Claims about VecExtractEveryNthElm (SpecVec) *)

\* the 0-based indices k = 0, nth, 2*nth, ... below bound
Strided(bound) == { k \in 0 .. Len(data) - 1 : k % nth = 0 /\ k < bound }

\* every_nth_data holds data[k] for exactly the indices of K, in increasing order
HoldsExactly(K) ==
    /\ Len(every_nth_data) = Cardinality(K)
    /\ \A i \in 1 .. Len(every_nth_data) :
          /\ (i - 1) * nth \in K
          /\ every_nth_data[i] = data[(i - 1) * nth + 1]

C7_EveryMultipleOfNth == returned => HoldsExactly(Strided(Len(data)))

====
